---- MODULE Spec2Model ----
(***************************************************************************)
(* Communication lines of tpc_communicator (scripts/communication.py) and  *)
(* the router that owns them (scripts/ros_java_communicator.py).           *)
(*                                                                         *)
(* A line's input buffer (_input_stream) is a Python string.  It is        *)
(* modelled as a sequence of tokens: every non-empty piece of data that is *)
(* delivered is one fresh token, an empty piece of data is the empty       *)
(* sequence, and string concatenation is \o.  Tokens let the properties    *)
(* follow a delivered fragment through the buffer.                         *)
(*                                                                         *)
(* Five specifications share the variables:                                *)
(*   Spec      whole method calls, one at a time (the sequential API)      *)
(*   WireSpec  the router's constructor and update, the topic line's send  *)
(*   ObsSpec   attach() and notify() on a subject                          *)
(*   BufSpec   the receive side's "+=" and recv() split at the points      *)
(*             where CPython can switch threads                            *)
(*   LifeSpec  the receive threads' run loops against stop() and shutdown  *)
(* The line objects are taken with the field values that                   *)
(* AbstractCommunicationLine.__init__ assigns (communication.py:35-39) and *)
(* a receive thread that start() has launched (communication.py:42).       *)
(***************************************************************************)
EXTENDS Integers, Sequences, FiniteSets, TLC

\* Bounds of the model.
MaxFrag == 3        \* non-empty pieces of data delivered in one behaviour
MaxAttach == 3      \* attach() calls in one behaviour
NumReaders == 2     \* threads that call recv() concurrently (BufSpec)
MaxBufFrag == 2     \* non-empty pieces of data delivered in one behaviour of BufSpec

\* "base" is a line that inherits run() and stop() from
\* AbstractCommunicationLine; the other three are the concrete classes.
Lines == {"base", "java", "topic", "service"}
Observers == Lines \cup {"router"}
Readers == 1..NumReaders
Tokens == 1..MaxFrag
\* Threads that can be the caller of a method.
Callers == {"main", "ros_callback"}

VARIABLES
    _input_stream,  \* [Lines -> Seq(Tokens)]         self._input_stream
    _running,       \* [Lines -> BOOLEAN]             self._running
    started,        \* [Lines -> {"unset","T","F"}]   self.started
    listeners,      \* [Lines -> Seq(Observers)]      the observer list of a subject
    _topics,        \* Seq(STRING)                    ROSJavaCommunicator._topics (names)
    pc,             \* [Lines -> ...]                 position of the receive thread
    acc,            \* [Lines -> Seq(Tokens)]         value "+=" loaded from _input_stream
    shutdown,       \* BOOLEAN                        rospy.is_shutdown()
    apc,            \* [{"topic","service"} -> ...]   position of a delivering caller
    rpc,            \* [Readers -> "idle" or a line]  line a reader is inside recv() of
    rtmp,           \* [Readers -> Seq(Tokens)]       tmp_input_stream of that recv()
    nfrag,          \* tokens handed out so far
    nattach,        \* attach() calls so far
    attachLog,      \* [Lines -> Seq(Observers)] ghost: the attach() calls on a subject, in order
    ret,            \* [Tokens -> Nat]   ghost: times a token was returned by recv()
    stored,         \* SUBSET Tokens     ghost: tokens whose append has been stored
    trk,            \* [Lines -> record] ghost: deliver / recv / recv sequence of a line
    lastNotify,     \* ghost: what the last notify() call did
    lastSend,       \* ghost: what the last ServiceLine.send() call did
    nreq,           \* ghost: calls of ROSJavaCommunicator._update
    warnings,       \* ghost: duplicate-topic warnings logged by _update
    stopCalled,     \* [Lines -> BOOLEAN] ghost: stop() was called on the line
    flagCleared,    \* [Lines -> BOOLEAN] ghost: a stop() call stored _running = False
    procAfterStop,  \* [Lines -> BOOLEAN] ghost: a loop iteration began after stop()
    _connected,     \* [Lines -> BOOLEAN]             self._connected
    procAfterShutdown, \* [Lines -> BOOLEAN] ghost: a loop iteration began after shutdown
    lastTopicSend,  \* ghost: what the last ROSTopicCommunicationLine.send() call did
    lastUpdate,     \* ghost: what the last ROSJavaCommunicator._update call did
    lastRead,       \* ghost: what the last iteration of JavaCommunicationLine.run did
    boot            \* ghost: what ROSJavaCommunicator.__init__ did

vars == <<_input_stream, _running, started, listeners, _topics, pc, acc, shutdown,
          apc, rpc, rtmp, nfrag, nattach, attachLog, ret, stored, trk, lastNotify, lastSend,
          nreq, warnings, stopCalled, flagCleared, procAfterStop, _connected,
          procAfterShutdown, lastTopicSend, lastUpdate, lastRead, boot>>

\* the variables of the connection state and of the later call records
noteVars == <<_connected, procAfterShutdown, lastTopicSend, lastUpdate, lastRead, boot>>

NoTrk == [phase |-> 0, frag |-> <<>>, r1 |-> <<>>, r2 |-> <<>>]
NoNotify == [subject |-> "none", caller |-> "none", ls |-> <<>>, fails |-> {},
             inv |-> <<>>, raised |-> FALSE]
NoSend == [outcome |-> "none", unchanged |-> TRUE, appended |-> FALSE,
           notified |-> 0, escaped |-> FALSE]

NoTopicSend == [writing |-> "None", called |-> FALSE, published |-> 0, warned |-> FALSE,
                escaped |-> FALSE, frame |-> TRUE]
NoUpdate == [called |-> FALSE, malformed |-> FALSE, dup |-> FALSE, created |-> FALSE,
             wired |-> FALSE, othersKept |-> TRUE, registryKept |-> TRUE,
             escaped |-> FALSE]
NoRead == [called |-> FALSE, nonempty |-> FALSE, notified |-> 0]
NoBoot == [called |-> FALSE, order |-> <<>>, completed |-> FALSE]

Init ==
    /\ _input_stream = [l \in Lines |-> <<>>]
    /\ _running = [l \in Lines |-> FALSE]
    /\ started = [l \in Lines |-> "unset"]
    /\ listeners = [l \in Lines |-> <<>>]
    /\ _topics = <<>>
    /\ pc = [l \in Lines |-> "created"]
    /\ acc = [l \in Lines |-> <<>>]
    /\ shutdown = FALSE
    /\ apc = [l \in {"topic", "service"} |-> "idle"]
    /\ rpc = [r \in Readers |-> "idle"]
    /\ rtmp = [r \in Readers |-> <<>>]
    /\ nfrag = 0
    /\ nattach = 0
    /\ attachLog = [l \in Lines |-> <<>>]
    /\ ret = [t \in Tokens |-> 0]
    /\ stored = {}
    /\ trk = [l \in Lines |-> NoTrk]
    /\ lastNotify = NoNotify
    /\ lastSend = NoSend
    /\ nreq = 0
    /\ warnings = 0
    /\ stopCalled = [l \in Lines |-> FALSE]
    /\ flagCleared = [l \in Lines |-> FALSE]
    /\ procAfterStop = [l \in Lines |-> FALSE]
    /\ _connected = [l \in Lines |-> FALSE]
    /\ procAfterShutdown = [l \in Lines |-> FALSE]
    /\ lastTopicSend = NoTopicSend
    /\ lastUpdate = NoUpdate
    /\ lastRead = NoRead
    /\ boot = NoBoot

Range(s) == {s[i] : i \in 1..Len(s)}

----------------------------------------------------------------------------
(* AbstractCommunicationLine: the buffer *)

\* recv(): tmp = self._input_stream; self._input_stream = ''; return tmp
recv_NoClear(stream) == [out |-> stream, stream |-> stream]
recv(stream) == [out |-> stream, stream |-> <<>>]

\* is_empty (a property): if self._input_stream: return False; return True
is_empty(stream) == IF Len(stream) > 0 THEN FALSE ELSE TRUE

\* self.is_empty(): is_empty is a property, so self.is_empty is a bool and the
\* call of it raises TypeError ('bool' object is not callable), whatever the buffer.
is_empty_call(stream) == [raised |-> TRUE, value |-> is_empty(stream)]

----------------------------------------------------------------------------
(* The state the nested calls of one method call pass along. *)

World == [is |-> _input_stream, ls |-> listeners, tp |-> _topics, ret |-> ret,
          st |-> stored, trk |-> trk, nreq |-> nreq, warn |-> warnings]

Commit(w) ==
    /\ _input_stream' = w.is
    /\ listeners' = w.ls
    /\ _topics' = w.tp
    /\ ret' = w.ret
    /\ stored' = w.st
    /\ trk' = w.trk
    /\ nreq' = w.nreq
    /\ warnings' = w.warn

\* ghost counters stop at 2: the properties only ask "more than once"
Bump(n) == IF n < 2 THEN n + 1 ELSE n
CountRet(r, out) == [t \in Tokens |-> IF t \in Range(out) THEN Bump(r[t]) ELSE r[t]]

\* ghost: a non-empty fragment delivered into an empty buffer starts a
\* deliver / recv / recv sequence; any other delivery ends it
TrkDeliver(before, data) ==
    IF before = <<>> /\ data # <<>>
    THEN [phase |-> 1, frag |-> data, r1 |-> <<>>, r2 |-> <<>>]
    ELSE NoTrk
TrkRecv(t, out) ==
    CASE t.phase = 1 -> [t EXCEPT !.phase = 2, !.r1 = out]
      [] t.phase = 2 -> [t EXCEPT !.phase = 3, !.r2 = out]
      [] OTHER -> NoTrk

\* line.recv() as one call
RecvW(w, l) ==
    LET r == recv(w.is[l])
    IN [w EXCEPT !.is[l] = r.stream,
                 !.ret = CountRet(@, r.out),
                 !.trk[l] = TrkRecv(@, r.out)]

\* self._input_stream += data: the buffer is loaded (old), data is added to
\* what was loaded, and the sum is stored
StoreW(w, l, old, data) ==
    [w EXCEPT !.is[l] = old \o data,
              !.st = @ \cup Range(data),
              !.trk[l] = TrkDeliver(old, data)]

\* self._input_stream += data as one step
AppendW(w, l, data) == StoreW(w, l, w.is[l], data)

----------------------------------------------------------------------------
(* Observers *)

\* ROSServiceCommunicationLine.update: self.send(subject.recv()).  The argument
\* is evaluated, which empties the subject's buffer; the call then raises
\* TypeError, since send() takes four arguments besides self.
ServiceUpdate(w, subject) == [w |-> RecvW(w, subject), raised |-> TRUE]

\* topic_name = 'test_talker'
TOPIC_NAME == "test_talker"

\* ROSTopicCommunicationLine(reading_topic): __init__ reads self.reading_topic,
\* an attribute no class defines (the field is _reading_topic), before it
\* reaches AbstractCommunicationLine.__init__: AttributeError.  (The class also
\* leaves the abstract methods _process and connect undefined, which makes
\* the call itself raise TypeError.)
NewTopicLine(reading_topic) == [ok |-> FALSE, name |-> reading_topic]

\* ROSJavaCommunicator._update(service)
_update(w, service) ==
    LET w1 == [RecvW(w, service) EXCEPT !.nreq = Bump(@)]
        dup == \E i \in 1..Len(w.tp) : w.tp[i] = TOPIC_NAME
        topic == NewTopicLine(TOPIC_NAME)
    IN IF dup
       THEN [w |-> [w1 EXCEPT !.warn = Bump(@)], raised |-> FALSE]
       ELSE IF topic.ok
            THEN [w |-> [w1 EXCEPT !.ls["topic"] = Append(@, "java"),
                                   !.tp = Append(@, topic.name)],
                  raised |-> FALSE]
            ELSE [w |-> w1, raised |-> TRUE]

\* update() of a listener that defines none of its own (the lines other than
\* the service line): Observer's.  It changes nothing here; whether it returns
\* or raises is left open (fails: the listeners whose update raises).
ObserverUpdate(w, o, subject, fails) == [w |-> w, raised |-> o \in fails]

\* listener.update(subject)
update(w, o, subject, fails) ==
    CASE o = "service" -> ServiceUpdate(w, subject)
      [] o = "router" -> _update(w, subject)
      [] OTHER -> ObserverUpdate(w, o, subject, fails)

\* Observable.attach(listener)
attach(ls, o) == Append(ls, o)

\* Observable.notify(): each listener's update, in attachment order, on the
\* calling thread; a listener that raises ends the call.
\* inv: the updates invoked so far, each with the thread it ran on.
RECURSIVE NotifyFrom(_, _, _, _, _, _)
NotifyFrom(w, s, i, inv, th, fails) ==
    IF i > Len(w.ls[s])
    THEN [w |-> w, inv |-> inv, raised |-> FALSE]
    ELSE LET o == w.ls[s][i]
             u == update(w, o, s, fails)
             inv1 == Append(inv, [o |-> o, th |-> th])
         IN IF u.raised
            THEN [w |-> u.w, inv |-> inv1, raised |-> TRUE]
            ELSE NotifyFrom(u.w, s, i + 1, inv1, th, fails)

RECURSIVE NotifyReversed(_, _, _, _, _, _)
NotifyReversed(w, s, i, inv, th, fails) ==
    IF i < 1
    THEN [w |-> w, inv |-> inv, raised |-> FALSE]
    ELSE LET o == w.ls[s][i]
             u == update(w, o, s, fails)
             inv1 == Append(inv, [o |-> o, th |-> th])
         IN IF u.raised
            THEN [w |-> u.w, inv |-> inv1, raised |-> TRUE]
            ELSE NotifyReversed(u.w, s, i - 1, inv1, th, fails)

RECURSIVE NotifyIsolated(_, _, _, _, _, _)
NotifyIsolated(w, s, i, inv, th, fails) ==
    IF i > Len(w.ls[s])
    THEN [w |-> w, inv |-> inv, raised |-> \E j \in 1..Len(inv) : inv[j].bad]
    ELSE LET o == w.ls[s][i]
             u == update(w, o, s, fails)
         IN NotifyIsolated(u.w, s, i + 1,
                           Append(inv, [o |-> o, th |-> th, bad |-> u.raised]),
                           th, fails)

notify_reversed(w, s, th, fails) == NotifyReversed(w, s, Len(w.ls[s]), <<>>, th, fails)
notify_isolated(w, s, th, fails) ==
    LET n == NotifyIsolated(w, s, 1, <<>>, th, fails)
    IN [n EXCEPT !.inv = [j \in 1..Len(n.inv) |-> [o |-> n.inv[j].o, th |-> n.inv[j].th]]]
notify(w, s, th, fails) == NotifyFrom(w, s, 1, <<>>, th, fails)

\* ghost: the record of one notify() call: the attach() calls made on the
\* subject before it, the updates it invoked and whether it ended by a raise
NotifyRecord(s, th, fails, n) ==
    [subject |-> s, caller |-> th, ls |-> attachLog[s], fails |-> fails,
     inv |-> n.inv, raised |-> n.raised]

----------------------------------------------------------------------------
(* ROSServiceCommunicationLine.send(node_name, filterchain_name, media_name, cmd) *)

\* outcome "fail": self._service_response(...) raises rospy.ServiceException,
\* before "+=" stores anything; the except clause logs it.
\* outcome "ok": the response, as text, is appended; self.is_empty() then raises
\* TypeError, which the except clause does not catch.
send_StoresOnFailure(w, outcome, text, th, fails) ==
    LET w1 == AppendW(w, "service", text)
    IN IF outcome = "fail"
       THEN [w |-> w1, raised |-> FALSE, notified |-> 0, note |-> NoNotify]
       ELSE [w |-> w1, raised |-> is_empty_call(w1.is["service"]).raised,
             notified |-> 0, note |-> NoNotify]
send(w, outcome, text, th, fails) ==
    IF outcome = "fail"
    THEN [w |-> w, raised |-> FALSE, notified |-> 0, note |-> NoNotify]
    ELSE LET w1 == AppendW(w, "service", text)
             e == is_empty_call(w1.is["service"])
         IN IF e.raised
            THEN [w |-> w1, raised |-> TRUE, notified |-> 0, note |-> NoNotify]
            ELSE IF ~e.value
                 THEN LET n == notify(w1, "service", th, fails)
                      IN [w |-> n.w, raised |-> n.raised, notified |-> 1,
                          note |-> NotifyRecord("service", th, fails, n)]
                 ELSE [w |-> w1, raised |-> FALSE, notified |-> 0, note |-> NoNotify]

----------------------------------------------------------------------------
(* ROSJavaCommunicator.__init__ *)

\* ROSServiceCommunicationLine(SERVICE_NAME, SERVICE_REF): the class leaves the
\* abstract methods _process and connect undefined, so the call raises
\* TypeError; past that, AbstractCommunicationLine.__init__ calls
\* self._connect(), which only JavaCommunicationLine defines: AttributeError.
NewServiceLine == [ok |-> FALSE]

\* JavaCommunicationLine(TCP_IP, TCP_PORT): the same TypeError; past that,
\* __init__ runs AbstractCommunicationLine.__init__ before it assigns
\* self.host and self.port, so _connect fails at bind((self.host, self.port))
\* and its except clause ends the process with sys.exit(1).
NewJavaLine == [ok |-> FALSE]

\* The constructor, statement by statement: the registry, the service line,
\* the java line, the two attach() calls, rospy.spin().
\* order: the line constructors called, in call order.
ROSJavaCommunicator_init(w) ==
    LET w0 == [w EXCEPT !.tp = <<>>]
        service == NewServiceLine
        java == NewJavaLine
    IN IF ~service.ok
       THEN [w |-> w0, order |-> <<"service">>, completed |-> FALSE]
       ELSE IF ~java.ok
            THEN [w |-> w0, order |-> <<"service", "java">>, completed |-> FALSE]
            ELSE [w |-> [w0 EXCEPT !.ls["java"] = attach(@, "service"),
                                   !.ls["service"] = attach(@, "router")],
                  order |-> <<"service", "java">>, completed |-> TRUE]

----------------------------------------------------------------------------
(* ROSTopicCommunicationLine.send(data) *)

\* rospy.warn(...): the rospy module has logwarn and no attribute warn, so the
\* expression raises AttributeError before anything is logged.
rospy_warn == [raised |-> TRUE, logged |-> FALSE]

\* The line has a writing topic: the data is published on it.
\* It has none (self._writing_topic is None): the else branch, rospy.warn(...).
topic_send(w, _writing_topic, data) ==
    IF _writing_topic # "None"
    THEN [w |-> w, published |-> 1, warned |-> FALSE, raised |-> FALSE]
    ELSE [w |-> w, published |-> 0, warned |-> rospy_warn.logged,
          raised |-> rospy_warn.raised]

----------------------------------------------------------------------------
(* Receive threads *)

threadVars == <<pc, _running, started, procAfterStop>>
bufVars == <<_input_stream, listeners, _topics, ret, stored, trk, nreq, warnings>>
splitVars == <<acc, apc, rpc, rtmp>>
stopVars == <<stopCalled, flagCleared>>

\* The first statement of run(), on the new thread.
\*   AbstractCommunicationLine.run:      self._running = True
\*   JavaCommunicationLine.run:          self.started = True
\*   ROSServiceCommunicationLine.run:    self.started = True
\*   ROSTopicCommunicationLine.run:      assigns nothing and reads self.started,
\*     which raises AttributeError while no one has assigned it
RunBegin(l) ==
    /\ pc[l] = "created"
    /\ CASE l = "base" ->
              /\ _running' = [_running EXCEPT ![l] = TRUE]
              /\ pc' = [pc EXCEPT ![l] = "check"]
              /\ UNCHANGED started
         [] l \in {"java", "service"} ->
              /\ started' = [started EXCEPT ![l] = "T"]
              /\ pc' = [pc EXCEPT ![l] = "check"]
              /\ UNCHANGED _running
         [] OTHER ->
              /\ pc' = [pc EXCEPT ![l] = IF started[l] = "unset" THEN "dead" ELSE "check"]
              /\ UNCHANGED <<_running, started>>
    /\ UNCHANGED procAfterStop
    /\ UNCHANGED <<bufVars, splitVars, stopVars, shutdown, nfrag, nattach, attachLog, noteVars,
                   lastNotify, lastSend>>

\* The loop condition of run().
\*   AbstractCommunicationLine.run:   while self.is_running   (then _running = False)
\*   JavaCommunicationLine.run:       while self.started
\*   the two ROS lines:               while self.started and not rospy.is_shutdown()
LoopCond(l) ==
    CASE l = "base" -> _running[l]
      [] l = "java" -> started[l] = "T"
      [] OTHER -> started[l] = "T" /\ ~shutdown

LoopCheck(l) ==
    /\ pc[l] = "check"
    /\ IF LoopCond(l)
       THEN /\ pc' = [pc EXCEPT ![l] = "process"]
            /\ procAfterStop' = [procAfterStop EXCEPT ![l] = @ \/ stopCalled[l]]
            /\ procAfterShutdown' = [procAfterShutdown EXCEPT ![l] = @ \/ shutdown]
            /\ UNCHANGED _running
       ELSE /\ pc' = [pc EXCEPT ![l] = "exited"]
            /\ _running' = [_running EXCEPT ![l] = IF l = "base" THEN FALSE ELSE @]
            /\ UNCHANGED <<procAfterStop, procAfterShutdown>>
    /\ UNCHANGED started
    /\ UNCHANGED <<bufVars, splitVars, stopVars, shutdown, nfrag, nattach, attachLog,
                   lastNotify, lastSend, _connected, lastTopicSend, lastUpdate, lastRead,
                   boot>>

\* AbstractCommunicationLine._process: raise NotImplementedError.  The thread
\* ends in run() before it reaches self._running = False.
BaseProcess ==
    /\ pc["base"] = "process"
    /\ pc' = [pc EXCEPT !["base"] = "dead"]
    /\ UNCHANGED <<_running, started, procAfterStop>>
    /\ UNCHANGED <<bufVars, splitVars, stopVars, shutdown, nfrag, nattach, attachLog, noteVars,
                   lastNotify, lastSend>>

\* rospy.spin() of the two ROS lines: returns once rospy is shut down.
Spin(l) ==
    /\ l \in {"topic", "service"}
    /\ pc[l] = "process"
    /\ shutdown
    /\ pc' = [pc EXCEPT ![l] = "check"]
    /\ UNCHANGED <<_running, started, procAfterStop>>
    /\ UNCHANGED <<bufVars, splitVars, stopVars, shutdown, nfrag, nattach, attachLog, noteVars,
                   lastNotify, lastSend>>

\* The data the next delivery can carry: nothing, or one fresh fragment.
Data == {<<>>} \cup (IF nfrag < MaxFrag THEN {<<nfrag + 1>>} ELSE {})

\* One iteration of JavaCommunicationLine.run: _read_from_line() appends what
\* the socket returned; "if not self.is_empty()" then raises TypeError, which
\* ends the thread before notify().
JavaRead(data) ==
    /\ pc["java"] = "process"
    /\ LET w == AppendW(World, "java", data)
           e == is_empty_call(w.is["java"])
       IN IF e.raised
          THEN /\ Commit(w)
               /\ pc' = [pc EXCEPT !["java"] = "dead"]
               /\ lastRead' = [called |-> TRUE, nonempty |-> w.is["java"] # <<>>,
                               notified |-> 0]
               /\ UNCHANGED lastNotify
          ELSE IF ~e.value
               THEN LET n == notify(w, "java", "java", {})
                    IN /\ Commit(n.w)
                       /\ lastNotify' = NotifyRecord("java", "java", {}, n)
                       /\ lastRead' = [called |-> TRUE, nonempty |-> TRUE, notified |-> 1]
                       /\ pc' = [pc EXCEPT !["java"] = IF n.raised THEN "dead" ELSE "check"]
               ELSE /\ Commit(w)
                    /\ pc' = [pc EXCEPT !["java"] = "check"]
                    /\ lastRead' = [called |-> TRUE, nonempty |-> FALSE, notified |-> 0]
                    /\ UNCHANGED lastNotify
    /\ nfrag' = nfrag + Len(data)
    /\ UNCHANGED <<_running, started, procAfterStop, splitVars, stopVars, shutdown,
                   nattach, attachLog, lastSend, _connected, procAfterShutdown,
                   lastTopicSend, lastUpdate, boot>>

----------------------------------------------------------------------------
(* Whole method calls *)

Attach(s, o) ==
    /\ nattach < MaxAttach
    /\ nattach' = nattach + 1
    /\ listeners' = [listeners EXCEPT ![s] = attach(@, o)]
    /\ attachLog' = [attachLog EXCEPT ![s] = Append(@, o)]
    /\ UNCHANGED <<_input_stream, _topics, ret, stored, trk, nreq, warnings>>
    /\ UNCHANGED <<threadVars, splitVars, stopVars, shutdown, nfrag, lastNotify, lastSend,
                   noteVars>>

\* line.recv() called from outside the line
RecvCall(l) ==
    /\ Commit(RecvW(World, l))
    /\ UNCHANGED <<threadVars, splitVars, stopVars, shutdown, nfrag, nattach, attachLog, noteVars,
                   lastNotify, lastSend>>

\* subject.notify() called on thread th
NotifyCall(s, th, fails) ==
    /\ LET n == notify(World, s, th, fails)
       IN /\ Commit(n.w)
          /\ lastNotify' = NotifyRecord(s, th, fails, n)
    /\ UNCHANGED <<threadVars, splitVars, stopVars, shutdown, nfrag, nattach, attachLog, noteVars, lastSend>>

HandleReadSubscribers_Renotify(data, fails) ==
    /\ LET w == AppendW(World, "topic", data)
           n1 == notify(w, "topic", "ros_callback", fails)
           n2 == notify(n1.w, "topic", "ros_callback", fails)
           n == [w |-> n2.w, inv |-> n1.inv \o n2.inv, raised |-> n1.raised \/ n2.raised]
       IN /\ Commit(n.w)
          /\ lastNotify' = NotifyRecord("topic", "ros_callback", fails, n)
    /\ nfrag' = nfrag + Len(data)
    /\ UNCHANGED <<threadVars, splitVars, stopVars, shutdown, nattach, attachLog, noteVars,
                   lastSend>>

\* ROSTopicCommunicationLine._handle_read_subscribers(data), on the thread
\* rospy delivers the message on: append, then notify() whatever arrived.
HandleReadSubscribers(data, fails) ==
    /\ LET w == AppendW(World, "topic", data)
           n == notify(w, "topic", "ros_callback", fails)
       IN /\ Commit(n.w)
          /\ lastNotify' = NotifyRecord("topic", "ros_callback", fails, n)
    /\ nfrag' = nfrag + Len(data)
    /\ UNCHANGED <<threadVars, splitVars, stopVars, shutdown, nattach, attachLog, noteVars, lastSend>>

\* service_line.send(node_name, filterchain_name, media_name, cmd) on thread th;
\* text is str() of the response (or of what the call raised)
ServiceSend(th, outcome, fails) ==
    /\ nfrag < MaxFrag
    /\ LET text == <<nfrag + 1>>
           before == _input_stream["service"]
           r == send(World, outcome, text, th, fails)
       IN /\ Commit(r.w)
          /\ lastSend' = [outcome |-> outcome,
                          unchanged |-> r.w.is["service"] = before,
                          appended |-> r.w.is["service"] = before \o text,
                          notified |-> r.notified,
                          escaped |-> r.raised]
          /\ lastNotify' = IF r.notified > 0 THEN r.note ELSE lastNotify
          /\ nfrag' = IF (nfrag + 1) \in r.w.st THEN nfrag + 1 ELSE nfrag
    /\ UNCHANGED <<threadVars, splitVars, stopVars, shutdown, nattach, attachLog, noteVars>>

\* The writing topic of the topic line send() is called on.
WritingTopics == {"None", "chatter"}

\* topic_line.send(data)
TopicSend(_writing_topic) ==
    /\ UNCHANGED <<threadVars, splitVars, stopVars, shutdown, nfrag, nattach, attachLog,
                   lastNotify, lastSend, _connected, procAfterShutdown, lastUpdate, lastRead,
                   boot>>
    /\ LET r == topic_send(World, _writing_topic, <<>>)
       IN /\ Commit(r.w)
          /\ lastTopicSend' = [writing |-> _writing_topic, called |-> TRUE,
                               published |-> r.published, warned |-> r.warned,
                               escaped |-> r.raised,
                               frame |-> /\ r.w.is = _input_stream
                                         /\ r.w.ls = listeners
                                         /\ _running' = _running]

\* A trigger payload that names no channel: the empty text.
Malformed(payload) == payload = <<>>

\* router._update(service_line)
RouterUpdate ==
    /\ LET u == _update(World, "service")
       IN /\ Commit(u.w)
          /\ lastUpdate' =
                [called |-> TRUE,
                 malformed |-> Malformed(_input_stream["service"]),
                 dup |-> \E i \in 1..Len(_topics) : _topics[i] = TOPIC_NAME,
                 created |-> u.w.tp = Append(_topics, TOPIC_NAME),
                 wired |-> u.w.ls["topic"] = Append(listeners["topic"], "java"),
                 othersKept |-> \A l \in Lines \ {"topic"} : u.w.ls[l] = listeners[l],
                 registryKept |-> /\ Len(u.w.tp) >= Len(_topics)
                                  /\ SubSeq(u.w.tp, 1, Len(_topics)) = _topics,
                 escaped |-> u.raised]
    /\ UNCHANGED <<threadVars, splitVars, stopVars, shutdown, nfrag, nattach, attachLog,
                   lastNotify, lastSend, _connected, procAfterShutdown, lastTopicSend,
                   lastRead, boot>>

\* ROSJavaCommunicator(), once
RouterInit ==
    /\ ~boot.called
    /\ LET b == ROSJavaCommunicator_init(World)
       IN /\ Commit(b.w)
          /\ boot' = [called |-> TRUE, order |-> b.order, completed |-> b.completed]
    /\ UNCHANGED <<threadVars, splitVars, stopVars, shutdown, nfrag, nattach, attachLog,
                   lastNotify, lastSend, _connected, procAfterShutdown, lastTopicSend,
                   lastUpdate, lastRead>>

\* The listeners whose inherited update() raises, in one call.
Fails == SUBSET {"java", "topic"}

Next ==
    \/ RunBegin("java")
    \/ LoopCheck("java")
    \/ \E d \in Data : JavaRead(d)
    \/ \E d \in Data, f \in Fails : HandleReadSubscribers(d, f)
    \/ \E th \in Callers, oc \in {"ok", "fail"}, f \in Fails : ServiceSend(th, oc, f)
    \/ \E l \in Lines : RecvCall(l)
    \/ RouterUpdate

Spec == Init /\ [][Next]_vars

\* The router's constructor and update and the topic line's send(), beside
\* deliveries on the topic line.
WireNext ==
    \/ RouterInit
    \/ RouterUpdate
    \/ \E wt \in WritingTopics : TopicSend(wt)
    \/ \E d \in Data, f \in Fails : HandleReadSubscribers(d, f)
    \/ \E l \in Lines : RecvCall(l)

WireSpec == Init /\ [][WireNext]_vars

\* The observer fabric, on the one subject whose notify() the code reaches
\* (the topic line's, in _handle_read_subscribers).
ObsNext ==
    \/ \E o \in Observers \ {"base"} : Attach("topic", o)
    \/ \E d \in Data, f \in Fails : HandleReadSubscribers(d, f)
    \/ \E th \in Callers, f \in Fails : NotifyCall("topic", th, f)

ObsSpec == Init /\ [][ObsNext]_vars

----------------------------------------------------------------------------
(* The buffer under thread switches.  CPython switches threads between      *)
(* bytecodes: "x += d" loads x, evaluates d, adds and stores; recv() loads  *)
(* the buffer into tmp_input_stream and stores '' afterwards.               *)

\* JavaCommunicationLine._read_from_line, first half: self._input_stream is
\* loaded, then the thread blocks in self._client.recv().
JavaLoad ==
    /\ pc["java"] = "process"
    /\ pc' = [pc EXCEPT !["java"] = "loaded"]
    /\ acc' = [acc EXCEPT !["java"] = _input_stream["java"]]
    /\ UNCHANGED <<_running, started, procAfterStop, bufVars, apc, rpc, rtmp, stopVars,
                   shutdown, nfrag, nattach, attachLog, noteVars, lastNotify, lastSend>>

\* second half: the socket returned data; the sum is stored; self.is_empty()
\* raises TypeError and the thread ends.
JavaStore(data) ==
    /\ pc["java"] = "loaded"
    /\ LET w == StoreW(World, "java", acc["java"], data)
           e == is_empty_call(w.is["java"])
       IN /\ Commit(w)
          /\ pc' = [pc EXCEPT !["java"] = IF e.raised THEN "dead" ELSE "check"]
    /\ nfrag' = nfrag + Len(data)
    /\ UNCHANGED <<_running, started, procAfterStop, splitVars, stopVars, shutdown,
                   nattach, attachLog, noteVars, lastNotify, lastSend>>

\* _handle_read_subscribers and send(): the load of "+="
DeliverLoad(l) ==
    /\ apc[l] = "idle"
    /\ apc' = [apc EXCEPT ![l] = "loaded"]
    /\ acc' = [acc EXCEPT ![l] = _input_stream[l]]
    /\ UNCHANGED <<threadVars, bufVars, rpc, rtmp, stopVars, shutdown, nfrag, nattach, attachLog, noteVars,
                   lastNotify, lastSend>>

\* _handle_read_subscribers: the store of "+=", then notify()
TopicStore(data, fails) ==
    /\ apc["topic"] = "loaded"
    /\ apc' = [apc EXCEPT !["topic"] = "idle"]
    /\ LET w == StoreW(World, "topic", acc["topic"], data)
           n == notify(w, "topic", "ros_callback", fails)
       IN /\ Commit(n.w)
          /\ lastNotify' = NotifyRecord("topic", "ros_callback", fails, n)
    /\ nfrag' = nfrag + Len(data)
    /\ UNCHANGED <<threadVars, acc, rpc, rtmp, stopVars, shutdown, nattach, attachLog, noteVars, lastSend>>

\* send(): the service call returns or raises rospy.ServiceException; a
\* response is stored, and self.is_empty() raises TypeError out of send()
SendReturn(outcome) ==
    /\ apc["service"] = "loaded"
    /\ apc' = [apc EXCEPT !["service"] = "idle"]
    /\ IF outcome = "fail"
       THEN UNCHANGED <<bufVars, nfrag>>
       ELSE /\ nfrag < MaxBufFrag
            /\ Commit(StoreW(World, "service", acc["service"], <<nfrag + 1>>))
            /\ nfrag' = nfrag + 1
    /\ UNCHANGED <<threadVars, acc, rpc, rtmp, stopVars, shutdown, nattach, attachLog, noteVars,
                   lastNotify, lastSend>>

\* recv(): tmp_input_stream = self._input_stream
RecvRead(r, l) ==
    /\ rpc[r] = "idle"
    /\ rpc' = [rpc EXCEPT ![r] = l]
    /\ rtmp' = [rtmp EXCEPT ![r] = _input_stream[l]]
    /\ UNCHANGED <<threadVars, bufVars, acc, apc, stopVars, shutdown, nfrag, nattach, attachLog, noteVars,
                   lastNotify, lastSend>>

\* recv(): self._input_stream = ''; return tmp_input_stream
RecvReturn(r) ==
    /\ rpc[r] # "idle"
    /\ rpc' = [rpc EXCEPT ![r] = "idle"]
    /\ rtmp' = [rtmp EXCEPT ![r] = <<>>]
    /\ _input_stream' = [_input_stream EXCEPT ![rpc[r]] = <<>>]
    /\ ret' = CountRet(ret, rtmp[r])
    /\ trk' = [trk EXCEPT ![rpc[r]] = NoTrk]
    /\ UNCHANGED <<listeners, _topics, stored, nreq, warnings>>
    /\ UNCHANGED <<threadVars, acc, apc, stopVars, shutdown, nfrag, nattach, attachLog, noteVars,
                   lastNotify, lastSend>>

BufData == {<<>>} \cup (IF nfrag < MaxBufFrag THEN {<<nfrag + 1>>} ELSE {})

BufNext ==
    \/ RunBegin("java")
    \/ LoopCheck("java")
    \/ JavaLoad
    \/ \E d \in BufData : JavaStore(d)
    \/ \E l \in {"topic", "service"} : DeliverLoad(l)
    \/ \E d \in BufData, f \in Fails : TopicStore(d, f)
    \/ \E oc \in {"ok", "fail"} : SendReturn(oc)
    \/ \E r \in Readers, l \in Lines \ {"base"} : RecvRead(r, l)
    \/ \E r \in Readers : RecvReturn(r)

BufSpec == Init /\ [][BufNext]_vars

----------------------------------------------------------------------------
(* stop() and shutdown against the run loops *)

\* socket.close() in JavaCommunicationLine.stop: socket is the class imported
\* from the socket module, and close is called on it without an instance:
\* TypeError.
socket_close == [raised |-> TRUE]

\* line.stop()
\*   JavaCommunicationLine.stop: socket.close(); self.started = False; super().stop()
\*   the other lines: AbstractCommunicationLine.stop: self._running = False
Stop(l) ==
    /\ stopCalled' = [stopCalled EXCEPT ![l] = TRUE]
    /\ IF l = "java" /\ socket_close.raised
       THEN UNCHANGED <<_running, started, flagCleared>>
       ELSE /\ started' = [started EXCEPT ![l] = IF l = "java" THEN "F" ELSE @]
            /\ _running' = [_running EXCEPT ![l] = FALSE]
            /\ flagCleared' = [flagCleared EXCEPT ![l] = TRUE]
    /\ UNCHANGED <<pc, procAfterStop>>
    /\ UNCHANGED <<bufVars, splitVars, shutdown, nfrag, nattach, attachLog, noteVars, lastNotify, lastSend>>

\* rospy is shut down
Shutdown ==
    /\ ~shutdown
    /\ shutdown' = TRUE
    /\ UNCHANGED <<threadVars, bufVars, splitVars, stopVars, nfrag, nattach, attachLog, noteVars,
                   lastNotify, lastSend>>

LifeNext ==
    \/ \E l \in Lines : RunBegin(l)
    \/ \E l \in Lines : LoopCheck(l)
    \/ BaseProcess
    \/ \E l \in {"topic", "service"} : Spin(l)
    \/ \E d \in Data : JavaRead(d)
    \/ \E l \in Lines : Stop(l)
    \/ Shutdown

LifeSpec == Init /\ [][LifeNext]_vars

----------------------------------------------------------------------------
(* Properties *)

InBuffer(t) == \E l \in Lines : t \in Range(_input_stream[l])
InFlight(t) == \E r \in Readers : rpc[r] # "idle" /\ t \in Range(rtmp[r])

\* C1: under every interleaving of the receive side's append with recv()
\* calls, no delivered fragment is returned by more than one recv() call.
C1_ConsumedOnce == \A t \in Tokens : ret[t] <= 1

\* C2: the append is never lost to a recv() in progress: every fragment whose
\* append was stored is in a buffer, is held by a recv() that is about to
\* return it, or has been returned by a recv().
C2_NoFragmentLost == \A t \in stored : InBuffer(t) \/ InFlight(t) \/ ret[t] >= 1

\* C3: after a fragment is appended to a line's empty buffer, is_empty is
\* false; the first recv() returns the whole fragment and leaves is_empty
\* true; a second recv() with no delivery in between returns the empty string.
C3_RecvOnce ==
    \A l \in Lines :
        /\ trk[l].phase = 1 => ~is_empty(_input_stream[l])
        /\ trk[l].phase >= 2 => trk[l].r1 = trk[l].frag
        /\ trk[l].phase = 2 => is_empty(_input_stream[l])
        /\ trk[l].phase = 3 => trk[l].r2 = <<>> /\ is_empty(_input_stream[l])

\* C3 witness: the socket, topic and service lines have each been through
\* delivery, recv(), recv().
C3_Witness ==
    /\ trk["java"].phase = 3
    /\ trk["topic"].phase = 3
    /\ trk["service"].phase = 3

\* C4: a notify() call invokes the listeners' update in the order of their
\* attach() calls, each on the thread that called notify(), and all of them
\* when none raises.
C4_AttachmentOrder ==
    lastNotify.subject # "none" =>
        /\ Len(lastNotify.inv) <= Len(lastNotify.ls)
        /\ \A i \in 1..Len(lastNotify.inv) :
              /\ lastNotify.inv[i].o = lastNotify.ls[i]
              /\ lastNotify.inv[i].th = lastNotify.caller
        /\ ~lastNotify.raised => Len(lastNotify.inv) = Len(lastNotify.ls)

\* C4 witness: a notify() call that invoked three different listeners.
C4_Witness ==
    /\ Len(lastNotify.inv) = 3
    /\ Cardinality({lastNotify.inv[i].o : i \in 1..3}) = 3

\* The listeners whose update raised in the last notify() call: the service
\* line's and the router's always do, an inherited one when the call says so.
Raisers == {"service", "router"} \cup lastNotify.fails
FirstRaiser ==
    LET bad == {i \in 1..Len(lastNotify.ls) : lastNotify.ls[i] \in Raisers}
    IN IF bad = {} THEN 0 ELSE CHOOSE i \in bad : \A j \in bad : i <= j

\* C5: when a listener's update raises during notify(), the listeners attached
\* before it have been invoked and none attached after it is.
C5_FailFast ==
    FirstRaiser > 0 =>
        /\ lastNotify.raised
        /\ Len(lastNotify.inv) = FirstRaiser
        /\ \A i \in 1..FirstRaiser : lastNotify.inv[i].o = lastNotify.ls[i]

\* C5 witness: of three listeners the second raised.
C5_Witness == Len(lastNotify.ls) = 3 /\ FirstRaiser = 2

TopicsNamed(name) == {i \in 1..Len(_topics) : _topics[i] = name}

\* C6: a channel requested once or more is in the registry exactly once, and
\* a second request for it is answered by a duplicate warning.
C6_OneTopicPerName ==
    /\ Cardinality(TopicsNamed(TOPIC_NAME)) <= 1
    /\ nreq >= 1 => Cardinality(TopicsNamed(TOPIC_NAME)) = 1
    /\ nreq >= 2 => warnings >= 1

\* C7: once stop() has set the running flag of a line to false, is_running is
\* not true again.
C7_StoppedIsTerminal == \A l \in Lines : flagCleared[l] => ~_running[l]

\* C8: for each line class, once stop() has been called the receive loop
\* begins no further iteration.
C8_StopEndsLoop == \A l \in {"java", "topic", "service"} : ~procAfterStop[l]

\* C9: when the service call raises the remote failure, send() leaves the
\* service line's buffer as it was, notifies no listener and raises nothing.
C9_RemoteFailure ==
    lastSend.outcome = "fail" =>
        /\ lastSend.unchanged
        /\ lastSend.notified = 0
        /\ ~lastSend.escaped

\* C9 witness: a failed call on a line whose buffer held an earlier response.
C9_Witness == lastSend.outcome = "fail" /\ _input_stream["service"] # <<>>

\* C10: when the service call returns a response, send() appends it as text
\* to the buffer and notifies the listeners exactly once.
C10_SendNotifiesOnce ==
    lastSend.outcome = "ok" => lastSend.appended /\ lastSend.notified = 1

\* C11: send() on a topic line that has no writing topic publishes nothing,
\* logs a warning, leaves the buffer, the running flag and the listeners as
\* they were, and raises nothing.
C11_NoChannelNoOp ==
    lastTopicSend.called /\ lastTopicSend.writing = "None" =>
        /\ lastTopicSend.published = 0
        /\ lastTopicSend.warned
        /\ lastTopicSend.frame
        /\ ~lastTopicSend.escaped

\* C12: when the trigger payload is malformed the router drops the request:
\* no topic line is created, the registry and the listeners stay as they
\* were, and no exception leaves the router.
C12_MalformedDropped ==
    lastUpdate.called /\ lastUpdate.malformed =>
        /\ ~lastUpdate.created
        /\ lastUpdate.registryKept
        /\ ~lastUpdate.wired /\ lastUpdate.othersKept
        /\ ~lastUpdate.escaped

\* C13: the router's startup constructs the peer (socket) line first and the
\* service line second, and ends with the service line as the only listener
\* of the peer line and the router as the only listener of the service line.
C13_StartupOrder ==
    boot.called =>
        /\ boot.order = <<"java", "service">>
        /\ boot.completed
        /\ listeners["java"] = <<"service">>
        /\ listeners["service"] = <<"router">>

C15_RunningImpliesConnected ==
    \A l \in Lines :
        (_running[l] \/ pc[l] \in {"check", "process"}) => _connected[l]

\* C16: for every line class, once rospy is shut down the receive loop begins
\* no further iteration.
C16_ShutdownEndsLoop == \A l \in Lines : ~procAfterShutdown[l]

Attached(ls, o) == Cardinality({i \in 1..Len(ls) : ls[i] = o})
Invoked(inv, o) == Cardinality({i \in 1..Len(inv) : inv[i].o = o})

C19_LoopResumes ==
    lastRead.called => pc["java"] \in {"check", "process", "exited"}

\* C20: the socket line and the service line call notify() exactly when the
\* buffer is not empty after the read or the response: no notify() when it is
\* left empty, exactly one when it is left non-empty.
C20_NotifyIffNonEmpty ==
    /\ lastRead.called => lastRead.notified = (IF lastRead.nonempty THEN 1 ELSE 0)
    /\ lastSend.outcome = "ok" =>
          lastSend.notified = (IF lastSend.appended THEN 1 ELSE 0)

====
